---------------------------- MODULE Spec2Model ----------------------------
(***************************************************************************)
(* Fire Risk Analysis Dashboard (src/app.py).                              *)
(*                                                                         *)
(* Two parts:                                                              *)
(*  - the pure data shaping of process_location_data (classification,     *)
(*    groupby, percentage, pivot, drop, melt), as operators;               *)
(*  - the cached data access (load_data / process_location_data under     *)
(*    st.cache_data) as executed by concurrent page renders.               *)
(*                                                                         *)
(* Percentages are kept as integers counting tenths (66.7 is 667), which   *)
(* is exact for values rounded to one decimal.                             *)
(***************************************************************************)
EXTENDS Integers, Sequences, FiniteSets, TLC

(***************************************************************************)
(* Bounds of the model.                                                    *)
(***************************************************************************)
MaxRows == 4        \* rows of a generated Fire-start-locations result
MaxCount == 5       \* largest number_of_incidents of a generated row
MaxSuffix == 1      \* characters appended to a stem to form a test string

(***************************************************************************)
(* Labels used by the transform (src/app.py:126-140, 146, 165).            *)
(***************************************************************************)
BG_House == "House"
BG_Flats == "Purpose Built Flats"
BG_Other == "Other"
LG_Kitchen == "Kitchen"
LG_Living == "Living/Bedroom"
LG_Communal == "Communal/Escape Routes"
LG_OtherRoom == "Other Room/External"

\* SQL NULL in a text column; .df() hands it to pandas as None
NULL == "<NULL>"

\* what None.startswith raises
AttributeError == "AttributeError"

\* str.startswith
startswith(s, prefix) ==
    /\ Len(s) >= Len(prefix)
    /\ SubSeq(s, 1, Len(prefix)) = prefix

\* group_buildings comparing for equality where the code tests the prefix
group_buildings_exact(dwelling_type) ==
    IF dwelling_type = "House - single occupancy" THEN BG_House
    ELSE IF dwelling_type = "Purpose Built" THEN BG_Flats
    ELSE BG_Other

\* on None the comparison of line 127 is false and line 129 raises
group_buildings(dwelling_type) ==
    IF dwelling_type = "House - single occupancy" THEN BG_House
    ELSE IF dwelling_type = NULL THEN AttributeError
    ELSE IF startswith(dwelling_type, "Purpose Built") THEN BG_Flats
    ELSE BG_Other

\* group_locations with the stairs entry missing from the communal tuple
group_locations_no_stairs(location) ==
    IF location = "Kitchen" THEN LG_Kitchen
    ELSE IF location \in {"Living Room", "Bedroom/ Bedsitting Room"} THEN LG_Living
    ELSE IF location \in {"Refuse Store",
                          "Corridor/ Hall/ Open Plan Area/ Reception Area"}
         THEN LG_Communal
    ELSE LG_OtherRoom

group_locations(location) ==
    IF location = "Kitchen" THEN LG_Kitchen
    ELSE IF location \in {"Living Room", "Bedroom/ Bedsitting Room"} THEN LG_Living
    ELSE IF location \in {"Refuse Store",
                          "Corridor/ Hall/ Open Plan Area/ Reception Area",
                          "Stairs/ Under stairs (enclosed area)"} THEN LG_Communal
    ELSE LG_OtherRoom

(***************************************************************************)
(* DataFrames.  A query result is [columns, rows]: the column names in     *)
(* order and the rows as records.  The SQL has no ORDER BY and groups by   *)
(* (dwelling_type, fire_start_location), so the rows are a set keyed by    *)
(* that pair.                                                              *)
(***************************************************************************)
LocationsColumns == <<"dwelling_type", "fire_start_location", "number_of_incidents">>

RECURSIVE SumIncidents(_)
SumIncidents(rows) ==
    IF rows = {} THEN 0
    ELSE LET r == CHOOSE x \in rows : TRUE
         IN  r.number_of_incidents + SumIncidents(rows \ {r})

\* lines 142-143: the two column assignments on df_locations_raw
add_group_columns(df) ==
    [columns |-> df.columns \o <<"building_group", "location_group">>,
     rows |-> {[dwelling_type |-> r.dwelling_type,
                fire_start_location |-> r.fire_start_location,
                number_of_incidents |-> r.number_of_incidents,
                building_group |-> group_buildings(r.dwelling_type),
                location_group |-> group_locations(r.fire_start_location)]
               : r \in df.rows}]

\* lines 145-147: rows whose building_group is House or Purpose Built Flats
df_groups(df) ==
    {r \in df.rows : r.building_group \in {BG_House, BG_Flats}}

\* lines 149-151: groupby(['building_group','location_group']).sum()
df_grouped_counts(groups) ==
    {[building_group |-> k[1], location_group |-> k[2],
      number_of_incidents |->
          SumIncidents({r \in groups : r.building_group = k[1]
                                       /\ r.location_group = k[2]})]
     : k \in {<<r.building_group, r.location_group>> : r \in groups}}

\* every row divided by the total over both building groups
group_totals_overall(counts) ==
    [b \in {r.building_group : r \in counts} |-> SumIncidents(counts)]

\* line 153: groupby('building_group').sum() of the grouped counts
group_totals(counts) ==
    [b \in {r.building_group : r \in counts} |->
        SumIncidents({r \in counts : r.building_group = b})]

\* the percentage cut to one decimal instead of rounded
round_1_truncating(n, total) == (1000 * n) \div total

\* lines 155-157: (100 * n / total).round(1), in tenths.  numpy rounds a
\* value half way between two tenths to the even one.
round_1(n, total) ==
    LET q == (1000 * n) \div total
        r == (1000 * n) % total
    IN  IF 2 * r < total THEN q
        ELSE IF 2 * r > total THEN q + 1
        ELSE IF q % 2 = 0 THEN q ELSE q + 1

with_percentage(counts) ==
    LET totals == group_totals(counts)
    IN  {[building_group |-> r.building_group,
          location_group |-> r.location_group,
          number_of_incidents |-> r.number_of_incidents,
          group_total |-> totals[r.building_group],
          percentage |-> round_1(r.number_of_incidents, totals[r.building_group])]
         : r \in counts}

\* pandas sorts the labels of a pivoted index and of its columns
LocationGroupOrder == <<LG_Communal, LG_Kitchen, LG_Living, LG_OtherRoom>>
BuildingGroupOrder == <<BG_House, BG_Other, BG_Flats>>

SortedLabels(order, S) == SelectSeq(order, LAMBDA x : x \in S)
Range(seq) == {seq[i] : i \in DOMAIN seq}

NaN == -1

\* lines 159-163: pivot(index='location_group', columns='building_group',
\* values='percentage'); a combination with no row is NaN
pivot(counts) ==
    LET idx == SortedLabels(LocationGroupOrder, {r.location_group : r \in counts})
        cols == SortedLabels(BuildingGroupOrder, {r.building_group : r \in counts})
    IN  [index |-> idx,
         columns |-> cols,
         values |-> [c \in Range(idx) \X Range(cols) |->
                       IF \E r \in counts : r.location_group = c[1]
                                            /\ r.building_group = c[2]
                       THEN (CHOOSE r \in counts : r.location_group = c[1]
                                            /\ r.building_group = c[2]).percentage
                       ELSE NaN]]

\* the pivot left with its NaN cells
fillna_skipped(pv, v) == pv

fillna(pv, v) ==
    [pv EXCEPT !.values = [c \in DOMAIN pv.values |->
                              IF pv.values[c] = NaN THEN v ELSE pv.values[c]]]

\* line 165: DataFrame.drop(label, errors=...); a missing label is a
\* KeyError unless errors='ignore'
KeyError == [exc |-> "KeyError"]
IsExc(v) == "exc" \in DOMAIN v

\* drop without errors='ignore'
drop_strict(pv, label, errors) ==
    IF label \notin Range(pv.index)
    THEN KeyError
    ELSE LET idx == SelectSeq(pv.index, LAMBDA x : x # label)
         IN  [index |-> idx,
              columns |-> pv.columns,
              values |-> [c \in Range(idx) \X Range(pv.columns) |-> pv.values[c]]]

drop(pv, label, errors) ==
    IF label \notin Range(pv.index)
    THEN IF errors = "ignore" THEN pv ELSE KeyError
    ELSE LET idx == SelectSeq(pv.index, LAMBDA x : x # label)
         IN  [index |-> idx,
              columns |-> pv.columns,
              values |-> [c \in Range(idx) \X Range(pv.columns) |-> pv.values[c]]]

\* lines 168-172: reset_index().melt(id_vars='location_group', ...): one
\* row per cell, column after column
melt(pv) ==
    LET N == Len(pv.index)
        K == Len(pv.columns)
    IN  [k \in 1..(N * K) |->
            LET lg == pv.index[((k - 1) % N) + 1]
                bg == pv.columns[((k - 1) \div N) + 1]
            IN  [location_group |-> lg,
                 building_group |-> bg,
                 percentage |-> pv.values[<<lg, bg>>]]]

EmptyPivot == [index |-> <<>>, columns |-> <<>>, values |-> [c \in {} |-> 0]]

\* lines 142-174: the body of process_location_data after load_data has
\* returned df: the frame as mutated, the intermediate frames and the pair
\* that is returned
transform(df) ==
    LET raw == add_group_columns(df)
        counts == with_percentage(df_grouped_counts(df_groups(raw)))
        full == fillna(pivot(counts), 0)
        pv == drop(full, LG_OtherRoom, "ignore")
    IN  IF \E r \in raw.rows : r.building_group = AttributeError
        THEN \* line 142 raises: no column is added, nothing is returned
             [exc |-> AttributeError, df_locations_raw |-> df,
              df_grouped_counts |-> {}, pivot_before_drop |-> EmptyPivot,
              df_locations_pivot_pct |-> EmptyPivot,
              df_locations_chart_data |-> <<>>]
        ELSE IF IsExc(pv)
        THEN [exc |-> pv.exc, df_locations_raw |-> raw,
              df_grouped_counts |-> counts, pivot_before_drop |-> full,
              df_locations_pivot_pct |-> EmptyPivot,
              df_locations_chart_data |-> <<>>]
        ELSE [exc |-> "none", df_locations_raw |-> raw,
              df_grouped_counts |-> counts, pivot_before_drop |-> full,
              df_locations_pivot_pct |-> pv,
              df_locations_chart_data |-> melt(pv)]

(***************************************************************************)
(* Inputs.                                                                 *)
(***************************************************************************)
Row(d, l, n) ==
    [dwelling_type |-> d, fire_start_location |-> l, number_of_incidents |-> n]

Frame(rows) == [columns |-> LocationsColumns, rows |-> rows]

\* The example of the specification, section 8.  Its "House" rows are rows
\* of the House building group, that is of dwelling type
\* 'House - single occupancy'.
ExampleRows ==
    {Row("House - single occupancy", "Kitchen", 100),
     Row("House - single occupancy", "Living Room", 50),
     Row("Purpose Built Flats", "Kitchen", 30),
     Row("Purpose Built Flats", "Refuse Store", 20)}

\* (dwelling_type, fire_start_location) pairs of generated results
Keys ==
    {<<"House - single occupancy", "Kitchen">>,
     <<"House - single occupancy", "Living Room">>,
     <<"House - single occupancy", "Bedroom/ Bedsitting Room">>,
     <<"House - single occupancy", "Stairs/ Under stairs (enclosed area)">>,
     <<"House - single occupancy", "Garage">>,
     <<"Purpose Built Low Rise (1-3) Flats/Maisonettes", "Kitchen">>,
     <<"Bungalow - single occupancy", "Kitchen">>}

\* COUNT over a group of joined fact rows is at least 1
KeySets == {S \in SUBSET Keys : Cardinality(S) <= MaxRows}

GeneratedFrame(K, f) == Frame({Row(k[1], k[2], f[k]) : k \in K})

RECURSIVE Suffixes(_)
Suffixes(n) ==
    IF n = 0 THEN {""}
    ELSE LET shorter == Suffixes(n - 1)
         IN  shorter \cup {s \o c : s \in shorter, c \in {" ", "s", "t"}}

Stems ==
    {"", "House - single occupancy", "House", "house - single occupancy",
     "Purpose Built", "Purpose Buil", "purpose built", " Purpose Built",
     "Purpose Built Low Rise (1-3) Flats/Maisonettes",
     "Converted Flat/Maisonette - single occupancy",
     "Bungalow - single occupancy",
     "Kitchen", "kitchen", "Living Room", "Bedroom/ Bedsitting Room", "Bedroom",
     "Refuse Store", "Corridor/ Hall/ Open Plan Area/ Reception Area",
     "Stairs/ Under stairs (enclosed area)", "Stairs", "Garage", "Not known"}

Strings == {stem \o suffix : stem \in Stems, suffix \in Suffixes(MaxSuffix)}

(***************************************************************************)
(* The dashboard process: render sessions, the store and the two           *)
(* st.cache_data caches.                                                   *)
(***************************************************************************)
NumSessions == 2    \* concurrent render sessions
MaxRenders == 2     \* script runs in all

Sessions == 1..NumSessions

\* line 180-186: the pages of the sidebar radio
Pages == {"Overview", "Response vs Risk", "Human vs. Property Risk",
          "Conclusions", "Methodology & ETL"}

\* the query texts handed to load_data (lines 217, 124, 326)
Queries == {"sql_vehicles", "sql_locations", "sql_human_cost"}

\* st.* calls of a page before its load_data call and after its data is there
HeaderElements == 2
OverviewRestElements == 14
HumanRestElements == 15
ConclusionsElements == 2
MethodologyElements == 16

VehiclesFrame ==
    [columns |-> <<"dwelling_type", "number_of_incidents", "avg_vehicles">>,
     rows |-> {[dwelling_type |-> "House - single occupancy",
                number_of_incidents |-> 3, avg_vehicles |-> 260]}]

HumanCostFrame ==
    [columns |-> <<"cause_of_fire", "number_of_incidents", "avg_spread_rank",
                   "total_incidents_with_casualties", "pct_chance_of_casualty",
                   "avg_rescues_per_incident">>,
     rows |-> {[cause_of_fire |-> "Cooking appliance", number_of_incidents |-> 101,
                avg_spread_rank |-> 150, total_incidents_with_casualties |-> 7,
                pct_chance_of_casualty |-> 693, avg_rescues_per_incident |-> 12]}]

\* results of the Fire-start-locations query for the database snapshots
LocationsFrames ==
    {Frame({}),
     Frame(ExampleRows),
     Frame({Row("Bungalow - single occupancy", "Kitchen", 2),
            Row("House - single occupancy", "Garage", 1)})}

Snapshot(locations) ==
    [q \in Queries |->
        CASE q = "sql_vehicles" -> VehiclesFrame
          [] q = "sql_locations" -> locations
          [] q = "sql_human_cost" -> HumanCostFrame]

\* what duckdb raises when the file cannot be opened / the query is invalid
IOException == "IOException"
CatalogException == "CatalogException"

NoFrame == [none |-> TRUE]
Absent == [absent |-> TRUE]
NotRun == [exc |-> "not run"]
NoLocals == [q \in Queries |-> NoFrame]
Unset == "(unset)"

VARIABLES
    store,          \* query text -> the frame the database gives for it
    cache,          \* st.cache_data of load_data: query text -> entry
    pcache,         \* st.cache_data of process_location_data: its entry
    lock,           \* per query text: session computing load_data, or 0
    plock,          \* session computing process_location_data, or 0
    pc,             \* per session: position in the script
    page,           \* per session: page of the current run
    callq,          \* per session: argument of the load_data call in progress
    conn,           \* per session: "none", "open" or "closed"
    exc,            \* per session: exception raised inside the with block
    objs,           \* per session, per query text: the frame load_data gave
    out,            \* per session: what process_location_data returned
    emitted,        \* per session: page elements sent in the current run
    err,            \* per session: exception that ended the current run
    renders,        \* script runs started so far
    executions,     \* per query text: con.execute calls so far
    completed,      \* per query text: con.execute calls that returned rows
    attempts,       \* per session: con.execute calls of the current call
    returned,       \* per query text: the frames load_data has returned
    first_stored,   \* per query text: the frame first written to the cache
    df_in,          \* the frame handed to the transform
    tr,             \* what the transform produced from df_in
    s_in,           \* the string handed to the classification functions
    bg_out,         \* group_buildings(s_in)
    lg_out,         \* group_locations(s_in)
    db,             \* the tables of dwelling_fires.duckdb a query reads
    qres            \* the frame the query gave for db

pure_vars == <<df_in, tr, s_in, bg_out, lg_out>>

session_vars == <<pc, page, callq, conn, exc, objs, out, emitted, err, renders>>
cache_vars == <<cache, pcache, lock, plock>>
history_vars == <<executions, completed, attempts, returned, first_stored>>

app_vars == <<store, cache_vars, session_vars, history_vars>>

sql_vars == <<db, qres>>

vars == <<app_vars, pure_vars, sql_vars>>

\* the process right after start: nothing cached, no session running
AppStart(locations) ==
    /\ store = Snapshot(locations)
    /\ cache = [q \in Queries |-> Absent]
    /\ pcache = Absent
    /\ lock = [q \in Queries |-> 0]
    /\ plock = 0
    /\ pc = [s \in Sessions |-> "idle"]
    /\ page = [s \in Sessions |-> "Overview"]
    /\ callq = [s \in Sessions |-> "sql_vehicles"]
    /\ conn = [s \in Sessions |-> "none"]
    /\ exc = [s \in Sessions |-> "none"]
    /\ objs = [s \in Sessions |-> NoLocals]
    /\ out = [s \in Sessions |-> NotRun]
    /\ emitted = [s \in Sessions |-> 0]
    /\ err = [s \in Sessions |-> "none"]
    /\ renders = 0
    /\ executions = [q \in Queries |-> 0]
    /\ completed = [q \in Queries |-> 0]
    /\ attempts = [s \in Sessions |-> 0]
    /\ returned = [q \in Queries |-> {}]
    /\ first_stored = [q \in Queries |-> NoFrame]

PureStart ==
    /\ df_in = Frame({})
    /\ tr = NotRun
    /\ s_in = ""
    /\ bg_out = Unset
    /\ lg_out = Unset

\* no query of the SQL part has been given a database
SqlStart ==
    /\ db = NoFrame
    /\ qres = NotRun

(***************************************************************************)
(* The transform applied to one frame.                                     *)
(***************************************************************************)
InitTransform ==
    /\ \/ \E K \in KeySets : \E f \in [K -> 1..MaxCount] :
              df_in = GeneratedFrame(K, f)
       \/ df_in = Frame(ExampleRows)
    /\ tr = NotRun
    /\ s_in = ""
    /\ bg_out = Unset
    /\ lg_out = Unset
    /\ AppStart(Frame({}))
    /\ SqlStart

ApplyTransform ==
    /\ tr = NotRun
    /\ tr' = transform(df_in)
    /\ UNCHANGED <<df_in, s_in, bg_out, lg_out, app_vars, sql_vars>>

NextTransform == ApplyTransform

(***************************************************************************)
(* The classification functions applied to one string.                     *)
(***************************************************************************)
InitClassify ==
    /\ s_in \in Strings
    /\ bg_out = Unset
    /\ lg_out = Unset
    /\ df_in = Frame({})
    /\ tr = NotRun
    /\ AppStart(Frame({}))
    /\ SqlStart

ApplyGroupBuildings ==
    /\ bg_out = Unset
    /\ bg_out' = group_buildings(s_in)
    /\ UNCHANGED <<df_in, tr, s_in, lg_out, app_vars, sql_vars>>

ApplyGroupLocations ==
    /\ lg_out = Unset
    /\ lg_out' = group_locations(s_in)
    /\ UNCHANGED <<df_in, tr, s_in, bg_out, app_vars, sql_vars>>

NextClassify == ApplyGroupBuildings \/ ApplyGroupLocations

SpecTransform == InitTransform /\ [][NextTransform]_vars
SpecClassify == InitClassify /\ [][NextClassify]_vars

(***************************************************************************)
(* The queries.  A table is kept as its distinct rows and, for the fact    *)
(* table, the number of fact rows (each with its own                       *)
(* fact_dwelling_fire_id) that carry the same values.                      *)
(***************************************************************************)
MaxDelta == 1       \* group sizes reach from the HAVING threshold +- MaxDelta

\* SQL NULL in a numeric column (ranks and rescues are never negative)
NULLN == -1

\* the truth values of SQL; WHERE and HAVING keep a row only on "true"
IsNotNull(v) == IF v = NULL THEN "false" ELSE "true"
IsNotNullN(v) == IF v = NULLN THEN "false" ELSE "true"
NotEqual(a, b) ==
    IF a = NULL \/ b = NULL THEN "unknown"
    ELSE IF a # b THEN "true" ELSE "false"
And(p, q) ==
    IF p = "false" \/ q = "false" THEN "false"
    ELSE IF p = "unknown" \/ q = "unknown" THEN "unknown"
    ELSE "true"

\* COUNT(f.fact_dwelling_fire_id) over the fact rows of the classes in ks
RECURSIVE CountFacts(_, _)
CountFacts(ks, fact) ==
    IF ks = {} THEN 0
    ELSE LET k == CHOOSE x \in ks : TRUE
         IN  fact[k] + CountFacts(ks \ {k}, fact)

\* line 93: the number after > in the HAVING clause
HavingThreshold == 100

\* HAVING that keeps a group of exactly the threshold
having_at_least(n) == n >= HavingThreshold

\* lines 92-93: HAVING COUNT(f.fact_dwelling_fire_id) > 100
having(n) == n > HavingThreshold

\* lines 71-94: sql_human_cost on database d.  d.classes[k] holds the values
\* shared by d.fact[k] fact rows; the aggregates other than the count are
\* left out of the result rows
sql_human_cost(d) ==
    LET ks == {k \in DOMAIN d.classes : d.fact[k] > 0}
        \* lines 80-84: the two inner joins
        joined == {k \in ks :
                     /\ d.classes[k].ignition_key \in DOMAIN d.dim_ignition
                     /\ d.classes[k].spread_key \in DOMAIN d.dim_spread}
        cause(k) == d.dim_ignition[d.classes[k].ignition_key]
        rank(k) == d.dim_spread[d.classes[k].spread_key]
        \* lines 85-89
        where(k) ==
            And(And(IsNotNullN(rank(k)), IsNotNullN(d.classes[k].rescues)),
                And(IsNotNull(cause(k)), NotEqual(cause(k), "Not known")))
        kept == {k \in joined : where(k) = "true"}
        \* lines 90-91
        groups == {cause(k) : k \in kept}
        members(g) == {k \in kept : cause(k) = g}
    IN  [columns |-> <<"cause_of_fire", "number_of_incidents">>,
         rows |-> {[cause_of_fire |-> g,
                    number_of_incidents |-> CountFacts(members(g), d.fact)]
                   : g \in {x \in groups :
                              having(CountFacts(members(x), d.fact))}}]

\* ignition_key -> cause_of_fire: two keys share one cause text
HumanCostIgnition ==
    <<"Cooking appliance", "Cooking appliance", "Smoking materials",
      "Not known", NULL>>
\* spread_key -> spread_rank
HumanCostSpread == <<2, NULLN>>
\* the distinct fact rows; ignition_key 0 has no row in dim_ignition
HumanCostClasses ==
    <<[ignition_key |-> 1, spread_key |-> 1, rescues |-> 0],
      [ignition_key |-> 2, spread_key |-> 1, rescues |-> 1],
      [ignition_key |-> 3, spread_key |-> 1, rescues |-> 0],
      [ignition_key |-> 3, spread_key |-> 2, rescues |-> 0],
      [ignition_key |-> 3, spread_key |-> 1, rescues |-> NULLN],
      [ignition_key |-> 4, spread_key |-> 1, rescues |-> 0],
      [ignition_key |-> 5, spread_key |-> 1, rescues |-> 0],
      [ignition_key |-> 0, spread_key |-> 1, rescues |-> 0]>>

\* numbers of fact rows: around the threshold, a few, many
NearThreshold ==
    {0} \cup ((HavingThreshold - MaxDelta)..(HavingThreshold + MaxDelta))
Few == {0, 1}
Many == {0, HavingThreshold + 1}

HumanCostDb(fact) ==
    [dim_ignition |-> HumanCostIgnition, dim_spread |-> HumanCostSpread,
     classes |-> HumanCostClasses, fact |-> fact]

InitHumanCost ==
    /\ \E a \in NearThreshold : \E b \in Few : \E c \in NearThreshold :
       \E e \in Few : \E f \in Few : \E g \in Many : \E h \in Many :
       \E i \in Many :
           db = HumanCostDb(<<a, b, c, e, f, g, h, i>>)
    /\ qres = NotRun
    /\ PureStart
    /\ AppStart(Frame({}))

\* line 326: the query is executed on the database
RunHumanCost ==
    /\ qres = NotRun
    /\ db # NoFrame
    /\ qres' = sql_human_cost(db)
    /\ UNCHANGED <<db, pure_vars, app_vars>>

NextHumanCost == RunHumanCost

SpecHumanCost == InitHumanCost /\ [][NextHumanCost]_vars

MaxFacts == 1       \* fact rows that share one pair of dimension keys

\* the WHERE clause of sql_locations without its test of dwelling_type
locations_where_any_dwelling(dwelling_type, fire_start_location) ==
    And(IsNotNull(fire_start_location),
        NotEqual(fire_start_location, "Not known"))

\* lines 61-64
locations_where(dwelling_type, fire_start_location) ==
    And(And(IsNotNull(fire_start_location),
            NotEqual(fire_start_location, "Not known")),
        IsNotNull(dwelling_type))

\* lines 50-68: sql_locations on database d, as the frame .df() gives
sql_locations(d) ==
    LET ks == {k \in DOMAIN d.classes : d.fact[k] > 0}
        \* lines 56-60: the two inner joins
        joined == {k \in ks :
                     /\ d.classes[k].dwelling_key \in DOMAIN d.dim_dwelling
                     /\ d.classes[k].location_key \in DOMAIN d.dim_location}
        dwelling(k) == d.dim_dwelling[d.classes[k].dwelling_key]
        location(k) == d.dim_location[d.classes[k].location_key]
        kept == {k \in joined :
                   locations_where(dwelling(k), location(k)) = "true"}
        \* lines 65-67
        groups == {<<dwelling(k), location(k)>> : k \in kept}
        members(g) == {k \in kept : <<dwelling(k), location(k)>> = g}
    IN  Frame({Row(g[1], g[2], CountFacts(members(g), d.fact))
               : g \in groups})

\* values of dim_dwelling.dwelling_type and dim_location.fire_start_location
DwellingTypes ==
    {"House - single occupancy",
     "Purpose Built Low Rise (1-3) Flats/Maisonettes", NULL}
FireStartLocations == {"Kitchen", "Garage", "Not known", NULL}
DimKeys == 1..2
\* the distinct fact rows; key 0 has no row in the dimension
LocationsClasses ==
    <<[dwelling_key |-> 1, location_key |-> 1],
      [dwelling_key |-> 1, location_key |-> 2],
      [dwelling_key |-> 2, location_key |-> 1],
      [dwelling_key |-> 2, location_key |-> 2],
      [dwelling_key |-> 0, location_key |-> 1],
      [dwelling_key |-> 1, location_key |-> 0]>>

LocationsDb(dd, dl, fact) ==
    [dim_dwelling |-> dd, dim_location |-> dl,
     classes |-> LocationsClasses, fact |-> fact]

InitLocations ==
    /\ \E dd \in [DimKeys -> DwellingTypes] :
       \E dl \in [DimKeys -> FireStartLocations] :
       \E fact \in [DOMAIN LocationsClasses -> 0..MaxFacts] :
           db = LocationsDb(dd, dl, fact)
    /\ qres = NotRun
    /\ PureStart
    /\ AppStart(Frame({}))

\* line 124: load_data(sql_locations) executes the query on the database
RunLocations ==
    /\ qres = NotRun
    /\ db # NoFrame
    /\ qres' = sql_locations(db)
    /\ UNCHANGED <<db, pure_vars, app_vars>>

\* lines 126-174: the body of process_location_data on the frame returned
ClassifyResult ==
    /\ qres # NotRun
    /\ tr = NotRun
    /\ tr' = transform(qres)
    /\ UNCHANGED <<df_in, s_in, bg_out, lg_out, app_vars, sql_vars>>

NextLocations == RunLocations \/ ClassifyResult

SpecLocations == InitLocations /\ [][NextLocations]_vars

(***************************************************************************)
(* The dashboard.  st.cache_data keeps the pickled return value of the     *)
(* function per argument; a call that finds no entry takes the lock of     *)
(* that key, looks again, runs the function, stores the value and releases *)
(* the lock.  A call that finds the entry gets a fresh copy of it.         *)
(***************************************************************************)
\* the entry read back as the frame object the computing session still holds
read_result_shared(entry, live, q) == live[entry.by][q]

\* the value a cache hit hands out: a copy unpickled from the stored bytes
read_result(entry, live, q) == entry.data

\* nothing is stored
write_result_dropped(c, q, value, s) == c

\* the computed value is pickled into the entry of its key
write_result(c, q, value, s) == [c EXCEPT ![q] = [data |-> value, by |-> s]]

\* the connection is closed only when the block ends without an exception
with_exit_leaky(state, e) == IF e = "none" THEN "closed" ELSE state

\* line 22: leaving the with block closes the connection on every path
with_exit(state, e) == "closed"

\* where a load_data call returns to: line 217, line 124 or line 326
AfterLoad(q) ==
    CASE q = "sql_vehicles" -> "pl_lookup"
      [] q = "sql_locations" -> "pl_transform"
      [] q = "sql_human_cost" -> "page_rest"

\* an exception leaves every frame of the script: no try statement in app.py.
\* On its way it releases the lock of process_location_data if it is held;
\* the locals of the run are gone with it.
Raise(s, e) ==
    /\ err' = [err EXCEPT ![s] = e]
    /\ pc' = [pc EXCEPT ![s] = "idle"]
    /\ plock' = IF plock = s THEN 0 ELSE plock
    /\ objs' = [objs EXCEPT ![s] = NoLocals]
    /\ out' = [out EXCEPT ![s] = NotRun]

\* a cache hit of load_data
Hit(s) ==
    LET q == callq[s]
        v == read_result(cache[q], objs, q)
    IN  /\ objs' = [objs EXCEPT ![s][q] = v]
        /\ returned' = [returned EXCEPT ![q] = @ \cup {v}]
        /\ pc' = [pc EXCEPT ![s] = AfterLoad(q)]

\* lines 177-214, 318-326, 450-530: a script run from its start to the first
\* load_data call, or to its end for a page without data.  emitted counts
\* the elements of the page body.
StartRender(s, p) ==
    /\ pc[s] = "idle"
    /\ renders < MaxRenders
    /\ renders' = renders + 1
    /\ page' = [page EXCEPT ![s] = p]
    /\ err' = [err EXCEPT ![s] = "none"]
    /\ exc' = [exc EXCEPT ![s] = "none"]
    /\ out' = [out EXCEPT ![s] = NotRun]
    /\ objs' = [objs EXCEPT ![s] = NoLocals]
    /\ attempts' = [attempts EXCEPT ![s] = 0]
    /\ CASE p = "Overview" ->
              /\ emitted' = [emitted EXCEPT ![s] = HeaderElements]
              /\ callq' = [callq EXCEPT ![s] = "sql_vehicles"]
              /\ pc' = [pc EXCEPT ![s] = "ld_lookup"]
         [] p = "Human vs. Property Risk" ->
              /\ emitted' = [emitted EXCEPT ![s] = HeaderElements]
              /\ callq' = [callq EXCEPT ![s] = "sql_human_cost"]
              /\ pc' = [pc EXCEPT ![s] = "ld_lookup"]
         [] p = "Conclusions" ->
              /\ emitted' = [emitted EXCEPT ![s] = ConclusionsElements]
              /\ UNCHANGED <<callq, pc>>
         [] p = "Methodology & ETL" ->
              /\ emitted' = [emitted EXCEPT ![s] = MethodologyElements]
              /\ UNCHANGED <<callq, pc>>
         [] p = "Response vs Risk" ->
              /\ emitted' = [emitted EXCEPT ![s] = 0]
              /\ UNCHANGED <<callq, pc>>
    /\ UNCHANGED <<store, cache_vars, conn, executions, completed, returned,
                   first_stored, pure_vars,
                   sql_vars>>

\* line 19: the cached function is called; the cache is read without a lock
LoadLookup(s) ==
    /\ pc[s] = "ld_lookup"
    /\ attempts' = [attempts EXCEPT ![s] = 0]
    /\ IF cache[callq[s]] # Absent
       THEN Hit(s)
       ELSE /\ pc' = [pc EXCEPT ![s] = "ld_lock"]
            /\ UNCHANGED <<objs, returned>>
    /\ UNCHANGED <<store, cache_vars, page, callq, conn, exc, out, emitted, err,
                   renders, executions, completed, first_stored, pure_vars,
                   sql_vars>>

\* line 19: the miss takes the lock of the key and reads the cache again
LoadAcquire(s) ==
    /\ pc[s] = "ld_lock"
    /\ lock[callq[s]] = 0
    /\ IF cache[callq[s]] # Absent
       THEN /\ Hit(s)
            /\ UNCHANGED lock
       ELSE /\ lock' = [lock EXCEPT ![callq[s]] = s]
            /\ pc' = [pc EXCEPT ![s] = "ld_connect"]
            /\ UNCHANGED <<objs, returned>>
    /\ UNCHANGED <<store, cache, pcache, plock, page, callq, conn, exc, out,
                   emitted, err, renders, executions, completed, attempts,
                   first_stored, pure_vars,
                   sql_vars>>

\* line 22: duckdb.connect opens the file or raises
Connect(s) ==
    /\ pc[s] = "ld_connect"
    /\ \/ /\ conn' = [conn EXCEPT ![s] = "open"]
          /\ pc' = [pc EXCEPT ![s] = "ld_execute"]
          /\ UNCHANGED <<lock, plock, err, objs, out>>
       \/ /\ lock' = [lock EXCEPT ![callq[s]] = 0]
          /\ Raise(s, IOException)
          /\ UNCHANGED conn
    /\ UNCHANGED <<store, cache, pcache, page, callq, exc, emitted,
                   renders, history_vars, pure_vars,
                   sql_vars>>

\* line 23: con.execute(query).df() gives the rows or raises
Execute(s) ==
    /\ pc[s] = "ld_execute"
    /\ executions' = [executions EXCEPT ![callq[s]] = @ + 1]
    /\ attempts' = [attempts EXCEPT ![s] = @ + 1]
    /\ \/ /\ objs' = [objs EXCEPT ![s][callq[s]] = store[callq[s]]]
          /\ completed' = [completed EXCEPT ![callq[s]] = @ + 1]
          /\ exc' = [exc EXCEPT ![s] = "none"]
       \/ /\ exc' = [exc EXCEPT ![s] = CatalogException]
          /\ UNCHANGED <<objs, completed>>
    /\ pc' = [pc EXCEPT ![s] = "ld_exit"]
    /\ UNCHANGED <<store, cache_vars, page, callq, conn, out, emitted, err,
                   renders, returned, first_stored, pure_vars,
                   sql_vars>>

\* lines 22-24 and 19: the with block is left, then either the frame is
\* returned, stored under its key and handed to the caller, or the exception
\* goes on; the lock of the key is released either way
LoadExit(s) ==
    LET q == callq[s]
        df == objs[s][q]
    IN  /\ pc[s] = "ld_exit"
        /\ conn' = [conn EXCEPT ![s] = with_exit(conn[s], exc[s])]
        /\ lock' = [lock EXCEPT ![q] = 0]
        /\ IF exc[s] = "none"
           THEN /\ cache' = write_result(cache, q, df, s)
                /\ first_stored' = [first_stored EXCEPT ![q] =
                                       IF @ = NoFrame THEN df ELSE @]
                /\ returned' = [returned EXCEPT ![q] = @ \cup {df}]
                /\ pc' = [pc EXCEPT ![s] = AfterLoad(q)]
                /\ UNCHANGED <<err, plock, objs, out>>
           ELSE /\ Raise(s, exc[s])
                /\ UNCHANGED <<cache, first_stored, returned>>
        /\ exc' = [exc EXCEPT ![s] = "none"]
        /\ UNCHANGED <<store, pcache, page, callq, emitted,
                       renders, executions, completed, attempts, pure_vars,
                       sql_vars>>

\* line 122: process_location_data is called; its cache is read
ProcLookup(s) ==
    /\ pc[s] = "pl_lookup"
    /\ IF pcache # Absent
       THEN /\ out' = [out EXCEPT ![s] = pcache.data]
            /\ pc' = [pc EXCEPT ![s] = "page_rest"]
       ELSE /\ pc' = [pc EXCEPT ![s] = "pl_lock"]
            /\ UNCHANGED out
    /\ UNCHANGED <<store, cache_vars, page, callq, conn, exc, objs, emitted,
                   err, renders, history_vars, pure_vars,
                   sql_vars>>

\* lines 122-124: the miss takes the lock, reads the cache again and, still
\* missing, enters the body, which calls load_data(sql_locations)
ProcAcquire(s) ==
    /\ pc[s] = "pl_lock"
    /\ plock = 0
    /\ IF pcache # Absent
       THEN /\ out' = [out EXCEPT ![s] = pcache.data]
            /\ pc' = [pc EXCEPT ![s] = "page_rest"]
            /\ UNCHANGED <<plock, callq>>
       ELSE /\ plock' = s
            /\ callq' = [callq EXCEPT ![s] = "sql_locations"]
            /\ pc' = [pc EXCEPT ![s] = "ld_lookup"]
            /\ UNCHANGED out
    /\ UNCHANGED <<store, cache, pcache, lock, page, conn, exc, objs, emitted,
                   err, renders, history_vars, pure_vars,
                   sql_vars>>

\* lines 142-174: the body works on the frame load_data gave it, adding two
\* columns to that very frame
ProcTransform(s) ==
    LET t == transform(objs[s]["sql_locations"])
    IN  /\ pc[s] = "pl_transform"
        /\ IF t.exc = "none"
           THEN /\ objs' = [objs EXCEPT ![s]["sql_locations"] = t.df_locations_raw]
                /\ out' = [out EXCEPT ![s] =
                             [exc |-> "none",
                              chart |-> t.df_locations_chart_data,
                              pivot |-> t.df_locations_pivot_pct]]
                /\ pc' = [pc EXCEPT ![s] = "pl_return"]
                /\ UNCHANGED <<err, plock>>
           ELSE Raise(s, t.exc)
        /\ UNCHANGED <<store, cache, pcache, lock, page, callq, conn, exc,
                       emitted, renders, history_vars, pure_vars,
                       sql_vars>>

\* process_location_data without its decorator: the pair is handed to line
\* 218 and kept nowhere
ProcReturn_unstored(s) ==
    /\ pc[s] = "pl_return"
    /\ plock' = 0
    /\ pc' = [pc EXCEPT ![s] = "page_rest"]
    /\ UNCHANGED <<store, cache, pcache, lock, page, callq, conn, exc, objs,
                   out, emitted, err, renders, history_vars, pure_vars,
                   sql_vars>>

\* lines 174 and 122: the pair is returned, stored and handed to line 218
ProcReturn(s) ==
    /\ pc[s] = "pl_return"
    /\ pcache' = [data |-> out[s], by |-> s]
    /\ plock' = 0
    /\ pc' = [pc EXCEPT ![s] = "page_rest"]
    /\ UNCHANGED <<store, cache, lock, page, callq, conn, exc, objs, out,
                   emitted, err, renders, history_vars, pure_vars,
                   sql_vars>>

\* lines 219-314 and 328-447: the charts and tables of the page; the run
\* ends and its locals are discarded
PageRest(s) ==
    /\ pc[s] = "page_rest"
    /\ emitted' = [emitted EXCEPT ![s] =
                      @ + IF page[s] = "Overview" THEN OverviewRestElements
                          ELSE HumanRestElements]
    /\ pc' = [pc EXCEPT ![s] = "idle"]
    /\ objs' = [objs EXCEPT ![s] = NoLocals]
    /\ out' = [out EXCEPT ![s] = NotRun]
    /\ UNCHANGED <<store, cache_vars, page, callq, conn, exc, err,
                   renders, history_vars, pure_vars,
                   sql_vars>>

Init ==
    /\ \E locations \in LocationsFrames : AppStart(locations)
    /\ PureStart
    /\ SqlStart

Next ==
    \/ \E s \in Sessions : \E p \in Pages : StartRender(s, p)
    \/ \E s \in Sessions : LoadLookup(s)
    \/ \E s \in Sessions : LoadAcquire(s)
    \/ \E s \in Sessions : Connect(s)
    \/ \E s \in Sessions : Execute(s)
    \/ \E s \in Sessions : LoadExit(s)
    \/ \E s \in Sessions : ProcLookup(s)
    \/ \E s \in Sessions : ProcAcquire(s)
    \/ \E s \in Sessions : ProcTransform(s)
    \/ \E s \in Sessions : ProcReturn(s)
    \/ \E s \in Sessions : PageRest(s)

Spec == Init /\ [][Next]_vars

(***************************************************************************)
(* Properties of the transform and of the classification functions.        *)
(***************************************************************************)
Abs(x) == IF x < 0 THEN -x ELSE x

RECURSIVE SumPercentage(_)
SumPercentage(rows) ==
    IF rows = {} THEN 0
    ELSE LET r == CHOOSE x \in rows : TRUE
         IN  r.percentage + SumPercentage(rows \ {r})

TransformDone == tr # NotRun

GroupRows(b) == {r \in tr.df_grouped_counts : r.building_group = b}
GroupsPresent == {r.building_group : r \in tr.df_grouped_counts}

\* C3 as stated: for each building group the rounded percentages over all
\* location groups, Other Room/External included, sum to 100 within 0.1.
C3_SumWithinOneTenth ==
    TransformDone =>
        \A b \in GroupsPresent : Abs(SumPercentage(GroupRows(b)) - 1000) <= 1

\* C3 amended: for each building group the rounded percentages over all
\* location groups, Other Room/External included, sum to 100 within 0.2.
C3_SumWithinTwoTenths ==
    TransformDone =>
        /\ GroupsPresent \subseteq {BG_House, BG_Flats}
        /\ \A b \in GroupsPresent : Abs(SumPercentage(GroupRows(b)) - 1000) <= 2

\* a building group with all four location groups whose percentages sum to 99.8
C3_Witness ==
    /\ TransformDone
    /\ \E b \in GroupsPresent :
          /\ Cardinality(GroupRows(b)) = 4
          /\ SumPercentage(GroupRows(b)) = 998

GroupRow(b, l, n, t, p) ==
    [building_group |-> b, location_group |-> l, number_of_incidents |-> n,
     group_total |-> t, percentage |-> p]

ChartRows(l, b) ==
    {k \in DOMAIN tr.df_locations_chart_data :
        /\ tr.df_locations_chart_data[k].location_group = l
        /\ tr.df_locations_chart_data[k].building_group = b}

\* C5: for every input the transform returns; the pivoted table has no
\* Other Room/External row (dropping is a no-op when it is absent); the
\* long-form table has one row per cell of the pivoted table, index size
\* times number of columns in all, and a combination with no incidents
\* carries 0.
C5_DropAndMelt ==
    TransformDone =>
        LET pv == tr.df_locations_pivot_pct
            chart == tr.df_locations_chart_data
        IN  /\ tr.exc = "none"
            /\ LG_OtherRoom \notin Range(pv.index)
            /\ Range(pv.index) = Range(tr.pivot_before_drop.index) \ {LG_OtherRoom}
            /\ pv.columns = tr.pivot_before_drop.columns
            /\ Len(chart) = Len(pv.index) * Len(pv.columns)
            /\ \A l \in Range(pv.index) : \A b \in Range(pv.columns) :
                  /\ Cardinality(ChartRows(l, b)) = 1
                  /\ \A k \in ChartRows(l, b) :
                        chart[k].percentage =
                            IF \E r \in GroupRows(b) : r.location_group = l
                            THEN (CHOOSE r \in GroupRows(b) :
                                      r.location_group = l).percentage
                            ELSE 0

\* the row was dropped, and a combination without incidents is in the chart
C5_Witness ==
    /\ TransformDone
    /\ tr.exc = "none"
    /\ LG_OtherRoom \in Range(tr.pivot_before_drop.index)
    /\ Len(tr.df_locations_pivot_pct.columns) = 2
    /\ \E k \in DOMAIN tr.df_locations_chart_data :
          /\ tr.df_locations_chart_data[k].percentage = 0
          /\ ~ \E r \in tr.df_grouped_counts :
                /\ r.location_group = tr.df_locations_chart_data[k].location_group
                /\ r.building_group = tr.df_locations_chart_data[k].building_group

\* the drop had nothing to drop
C5_WitnessAbsent ==
    /\ TransformDone
    /\ tr.exc = "none"
    /\ LG_OtherRoom \notin Range(tr.pivot_before_drop.index)
    /\ Len(tr.df_locations_chart_data) > 0

\* s begins with "Purpose Built", said without startswith
BeginsPurposeBuilt(s) == \E n \in 0..Len(s) : SubSeq(s, 1, n) = "Purpose Built"

\* C6: group_buildings gives House for "House - single occupancy", Purpose
\* Built Flats for every string that starts with "Purpose Built", and
\* Other for every other string.
C6_GroupBuildings ==
    bg_out # Unset =>
        bg_out = IF s_in = "House - single occupancy" THEN "House"
                 ELSE IF BeginsPurposeBuilt(s_in) THEN "Purpose Built Flats"
                 ELSE "Other"

C6_Witness ==
    /\ bg_out = "Purpose Built Flats"
    /\ Len(s_in) > Len("Purpose Built")

\* C7: group_locations gives Kitchen for "Kitchen", Living/Bedroom for the
\* two living locations, Communal/Escape Routes for the three communal
\* locations and Other Room/External for every other value.
C7_GroupLocations ==
    lg_out # Unset =>
        lg_out =
            CASE s_in = "Kitchen" -> "Kitchen"
              [] s_in = "Living Room" -> "Living/Bedroom"
              [] s_in = "Bedroom/ Bedsitting Room" -> "Living/Bedroom"
              [] s_in = "Refuse Store" -> "Communal/Escape Routes"
              [] s_in = "Corridor/ Hall/ Open Plan Area/ Reception Area"
                    -> "Communal/Escape Routes"
              [] s_in = "Stairs/ Under stairs (enclosed area)"
                    -> "Communal/Escape Routes"
              [] OTHER -> "Other Room/External"

C7_Witness ==
    /\ lg_out = "Communal/Escape Routes"
    /\ s_in = "Stairs/ Under stairs (enclosed area)"

\* C10: when the query returned zero rows the transform completes without
\* raising and both returned tables are empty.
C10_EmptyInput ==
    (TransformDone /\ df_in.rows = {}) =>
        /\ tr.exc = "none"
        /\ tr.df_locations_chart_data = <<>>
        /\ tr.df_locations_pivot_pct.index = <<>>
        /\ tr.df_locations_pivot_pct.columns = <<>>

C10_Witness ==
    /\ TransformDone
    /\ df_in.rows = {}
    /\ tr.df_locations_raw.columns =
          LocationsColumns \o <<"building_group", "location_group">>

(***************************************************************************)
(* Properties of the cached data access.                                   *)
(***************************************************************************)
\* C1 as stated: two calls with the same query text return equal tables and
\* a query text is executed against the store at most once.
C1_AtMostOneExecution ==
    \A q \in Queries :
        /\ Cardinality(returned[q]) <= 1
        /\ executions[q] <= 1

\* C1 amended: two calls with the same query text return equal tables; once
\* the entry of a query text is there no call executes that text again, and
\* at most one execution of a query text ever returns rows (an execution
\* that fails stores nothing, so the next call executes again).
C1_AtMostOneCompletedExecution ==
    /\ [](\A q \in Queries :
             /\ Cardinality(returned[q]) <= 1
             /\ completed[q] <= 1
             /\ cache[q] # Absent => completed[q] = 1)
    /\ [][\A q \in Queries :
             cache[q] # Absent => executions'[q] = executions[q]]_vars

\* two sessions hold the frame of one query text after a single execution
C1_Witness ==
    \E q \in Queries : \E s1, s2 \in Sessions :
        /\ s1 # s2
        /\ executions[q] = 1
        /\ objs[s1][q] # NoFrame
        /\ objs[s2][q] = objs[s1][q]

\* C2: an entry is written only where there is none and never changes; what
\* a call gets from it, and what load_data ever returned for that text, is
\* the frame first stored, also once process_location_data has added
\* building_group and location_group to the frame it received.
C2_CacheEntryNeverMutated ==
    /\ [](\A q \in Queries :
             /\ returned[q] \subseteq {first_stored[q]}
             /\ cache[q] # Absent =>
                   /\ first_stored[q] = store[q]
                   /\ read_result(cache[q], objs, q) = first_stored[q])
    /\ [][\A q \in Queries : cache[q] # Absent => cache'[q] = cache[q]]_vars

\* the entry is there and a session holds the frame with the added columns
C2_Witness ==
    /\ cache["sql_locations"] # Absent
    /\ \E s \in Sessions :
          /\ objs[s]["sql_locations"] # NoFrame
          /\ objs[s]["sql_locations"].columns =
                LocationsColumns \o <<"building_group", "location_group">>

DataUnavailable == {IOException, CatalogException}

\* C8: a run that load_data ended with an error has a DataUnavailable
\* error, executed at most once in the failing call, is over, and shows no
\* part of the page.
C8_FailureWithoutPartialPage ==
    \A s \in Sessions :
        err[s] # "none" =>
            /\ err[s] \in DataUnavailable
            /\ attempts[s] <= 1
            /\ pc[s] = "idle"
            /\ emitted[s] = 0

\* C9: a connection is open only inside the load_data call that opened it,
\* between connect and the end of the with block.
C9_ConnectionScoped ==
    \A s \in Sessions :
        conn[s] = "open" =>
            /\ pc[s] \in {"ld_execute", "ld_exit"}
            /\ lock[callq[s]] = s

\* a call whose query failed has ended and its connection is closed
C9_Witness ==
    \E s \in Sessions :
        /\ pc[s] = "idle"
        /\ err[s] = CatalogException
        /\ conn[s] = "closed"

(***************************************************************************)
(* What persists between calls of process_location_data.                   *)
(***************************************************************************)
\* the pair the body of process_location_data derives from a frame
DerivedPair(df) ==
    LET t == transform(df)
    IN  [exc |-> "none", chart |-> t.df_locations_chart_data,
         pivot |-> t.df_locations_pivot_pct]

\* C11 as stated: nothing but the query result tables persists between
\* calls, and every call of process_location_data that returns has derived
\* its outputs in that call: no call returns from the cache lookup (line 122)
\* without running the body.
C11_RecomputedOnEachCall ==
    /\ [](pcache = Absent)
    /\ [][\A s \in Sessions :
             pc[s] \in {"pl_lookup", "pl_lock"} => pc'[s] # "page_rest"]_vars

\* C11 amended: the pair returned by process_location_data persists as well.
\* Once a call has returned, the pair is in the function's cache, it is the
\* pair derived from the table load_data(sql_locations) returned, no call is
\* inside the body any more, and every call that has returned holds a copy of
\* that cached pair.
C11_CachedPairReturned ==
    /\ pcache # Absent =>
          /\ first_stored["sql_locations"] # NoFrame
          /\ pcache.data = DerivedPair(first_stored["sql_locations"])
          /\ plock = 0
    /\ \A s \in Sessions :
          (pc[s] = "page_rest" /\ page[s] = "Overview") =>
              /\ pcache # Absent
              /\ out[s] = pcache.data

\* a call of process_location_data has returned the pair another call
\* stored, without calling load_data(sql_locations) itself
C11_Witness ==
    \E s \in Sessions :
        /\ pc[s] = "page_rest"
        /\ page[s] = "Overview"
        /\ pcache # Absent
        /\ pcache.by # s
        /\ out[s] = pcache.data
        /\ objs[s]["sql_locations"] = NoFrame

(***************************************************************************)
(* Properties of the queries.                                              *)
(***************************************************************************)
QueryDone == qres # NotRun

\* the fact rows of db that count for cause g: matched in both dimensions,
\* spread rank and rescues not null, cause g itself not null, not 'Not known'
Qualifying(g) ==
    {k \in DOMAIN db.classes :
        /\ db.classes[k].ignition_key \in DOMAIN db.dim_ignition
        /\ db.classes[k].spread_key \in DOMAIN db.dim_spread
        /\ db.dim_ignition[db.classes[k].ignition_key] = g
        /\ g \notin {NULL, "Not known"}
        /\ db.dim_spread[db.classes[k].spread_key] # NULLN
        /\ db.classes[k].rescues # NULLN}

QualifyingRows(g) == CountFacts(Qualifying(g), db.fact)

Retained == {r.cause_of_fire : r \in qres.rows}

\* C12: the human-cost query retains a cause exactly when its number of
\* qualifying fact rows is greater than 100, so 101 rows are retained and
\* 100 or 99 are not; the count it reports is that number.
C12_RetainedIffOver100 ==
    QueryDone =>
        /\ \A g \in Range(db.dim_ignition) :
              (g \in Retained) <=> (QualifyingRows(g) > 100)
        /\ \A r \in qres.rows :
              r.number_of_incidents = QualifyingRows(r.cause_of_fire)

\* one cause with 101 qualifying rows, split over two ignition keys, is
\* retained while another with 100 qualifying rows and two further rows
\* that do not qualify is not
C12_Witness ==
    /\ QueryDone
    /\ QualifyingRows("Cooking appliance") = 101
    /\ db.fact[2] = 1
    /\ "Cooking appliance" \in Retained
    /\ QualifyingRows("Smoking materials") = 100
    /\ db.fact[4] + db.fact[5] = 2
    /\ "Smoking materials" \notin Retained

\* fact rows of db joined to a dimension row with the given texts
JoinedRows(dwelling_type, fire_start_location) ==
    {k \in DOMAIN db.classes :
        /\ db.fact[k] > 0
        /\ db.classes[k].dwelling_key \in DOMAIN db.dim_dwelling
        /\ db.classes[k].location_key \in DOMAIN db.dim_location
        /\ db.dim_dwelling[db.classes[k].dwelling_key] = dwelling_type
        /\ db.dim_location[db.classes[k].location_key] = fire_start_location}

\* C13: whatever the database holds, every row of the fire-start-locations
\* query has a dwelling_type that is not null and a fire_start_location that
\* is neither null nor 'Not known'; so group_buildings is never given a null
\* dwelling type and the classification raises nothing: every row gets one
\* of the three building groups.
C13_NoNullReachesClassification ==
    /\ QueryDone =>
          \A r \in qres.rows :
              /\ r.dwelling_type # NULL
              /\ r.fire_start_location \notin {NULL, "Not known"}
    /\ TransformDone =>
          /\ tr.exc = "none"
          /\ \A r \in tr.df_locations_raw.rows :
                /\ group_buildings(r.dwelling_type) # AttributeError
                /\ r.building_group \in {BG_House, BG_Flats, BG_Other}

\* the database joins fact rows to a null dwelling type with a known
\* location and to a dwelling type with the location 'Not known'; the query
\* returned rows and the classification of them has finished
C13_Witness ==
    /\ QueryDone
    /\ TransformDone
    /\ JoinedRows(NULL, "Kitchen") # {}
    /\ \E d \in DwellingTypes \ {NULL} :
          /\ JoinedRows(d, "Not known") # {}
          /\ JoinedRows(d, "Kitchen") # {}
    /\ tr.exc = "none"
    /\ tr.df_locations_raw.rows # {}

=============================================================================
